---------------------------- MODULE Spec2Model ----------------------------
(***************************************************************************)
(* A model of src/Database.js: the data-access layer over a partitioned    *)
(* document store (Cosmos DB) with two containers, `data` and `metadata`.  *)
(*                                                                         *)
(* Every `await` of the source is a suspension point: an action of this    *)
(* model runs a handler from one suspension point to the next.  A request  *)
(* handed to the store stays in `pending` until the store answers it; the  *)
(* answer and the handler's continuation form one step.                    *)
(***************************************************************************)
EXTENDS Integers, Sequences, FiniteSets, TLC

(***************************************************************************)
(* Bounds of the model.                                                    *)
(***************************************************************************)
\* Longest item list, id list or seed count handed to one invocation.
MaxItems == 3

\* Largest value the instance's bulkLimit field is configured with.
MaxBulkLimit == 2

\* An invocation that creates items starts only if the container then holds
\* at most this many items.
MaxStore == 3

(***************************************************************************)
(* Records, containers and partition keys.                                 *)
(***************************************************************************)
Containers == {"data", "metadata"}

\* The name of the production database, and the name used otherwise.
ProductionName == "digitallinguistics"

TestName == "test"

DbNames == {ProductionName, TestName}

\* What setup() creates in the store: the database and its two containers.
Resources == {"database"} \cup Containers

\* The id of a record that carries no `id` property: the store assigns one.
NoId == 0

\* A record is [id, language, type, projects, valid]: `language` stands for
\* its language.id, `projects` for the ids of its projects, `valid` for the
\* verdict validate() gives on it.
R1 == [id |-> 1, language |-> "l1", type |-> "Lexeme", projects |-> {"p1"},
       valid |-> TRUE]
R2 == [id |-> 1, language |-> "l2", type |-> "Language", projects |-> {},
       valid |-> TRUE]
R3 == [id |-> NoId, language |-> "l1", type |-> "Lexeme", projects |-> {"p1"},
       valid |-> FALSE]

\* The records callers submit: R1 and R2 share their id and differ in their
\* partition key in both containers; R3 has no id and is not valid.
Records == {R1, R2, R3}

\* A record with the id of R1 that is not valid.
R4 == [id |-> 1, language |-> "l1", type |-> "Lexeme", projects |-> {"p1"},
       valid |-> FALSE]

\* The records callers add one by one.
AddOneRecords == {R1, R2, R3, R4}

\* The records callers seed.
SeedRecords == {R1, R3}

\* The ids callers ask for: the id of R1 and R2, and the first id the store
\* assigns.
RequestIds == {1, 2}

\* The partition key of a record in a container (clearContainer, seedMany).
PartitionKeyOf(container, item) ==
  IF container = "data" THEN item.language ELSE item.type

\* The partition-key values callers pass for a container.
PartitionKeys(container) ==
  IF container = "data" THEN {"l1", "l2"} ELSE {"Lexeme", "Language"}

\* types.js: the container holding each type of item.
TypeContainer(type) == IF type = "Lexeme" THEN "data" ELSE "metadata"

Types == {"Lexeme", "Language"}

(***************************************************************************)
(* Sequence helpers.                                                       *)
(***************************************************************************)
Range(s) == {s[i] : i \in 1..Len(s)}

SeqsUpTo(S, n) == UNION {[1..m -> S] : m \in 0..n}

RECURSIVE Flatten(_)
Flatten(ss) == IF ss = <<>> THEN <<>> ELSE Head(ss) \o Flatten(Tail(ss))

Min(a, b) == IF a < b THEN a ELSE b

\* utilities/chunk.js: consecutive groups of at most `size` elements, in
\* order; no group for an empty sequence.
RECURSIVE chunk(_, _)
chunk(items, size) ==
  IF items = <<>> THEN <<>>
  ELSE <<SubSeq(items, 1, Min(size, Len(items)))>>
         \o chunk(SubSeq(items, Min(size, Len(items)) + 1, Len(items)), size)

\* validate.js: validate(record) throws on a record that is not valid.
validate(data) == data.valid

\* An absent value (undefined).
NoValue == [none |-> TRUE]

\* DatabaseResponse.js: the uniform response { data, message, status }.

DatabaseResponse(data, message, status) ==
  [kind |-> "returned", data |-> data, message |-> message, status |-> status]

Thrown(error) ==
  [kind |-> "thrown", data |-> NoValue, message |-> error.message, status |-> error.code]

NoOutcome == [kind |-> "none"]


(***************************************************************************)
(* The store: what the Cosmos DB client answers to each request.  A        *)
(* container's content is a set of items, unique by partition key and id.  *)
(* Any request may fail as a whole with a provider error, which the client *)
(* throws; otherwise the answer follows from the container's content.      *)
(***************************************************************************)
ProviderErrors ==
  { [code |-> 429, message |-> <<"TooManyRequests">>],
    [code |-> 503, message |-> <<"ServiceUnavailable">>] }

ConflictError == [code |-> 409, message |-> <<"Conflict">>]

\* The status of an operation the store turns down by itself (throttled),
\* whatever the content of the container.
Throttled == 429

\* The error validate() throws: it carries no code.
ValidationError == [code |-> 0, message |-> <<"ValidationError">>]

Failure(error, items) ==
  [ok |-> FALSE, error |-> error, items |-> items, code |-> error.code,
   result |-> <<>>]

Holds(container, items, partitionKey, id) ==
  \E x \in items : x.id = id /\ PartitionKeyOf(container, x) = partitionKey

Find(container, items, partitionKey, id) ==
  CHOOSE x \in items : x.id = id /\ PartitionKeyOf(container, x) = partitionKey

SetMax(S) == CHOOSE m \in S : \A x \in S : x <= m

\* The document of a record: its properties (the validator's verdict is
\* none of them).
Doc(data) == [f \in DOMAIN data \ {"valid"} |-> data[f]]

\* An id the store assigns: one no record submitted carries and no item of
\* the container has.
FreshId(items) ==
  LET base == SetMax({r.id : r \in Records})
      used == {x.id : x \in items}
  IN  CHOOSE n \in (base + 1)..(base + Cardinality(items) + 1) :
        /\ n \notin used
        /\ \A m \in (base + 1)..(n - 1) : m \in used

\* NOTE of the source: Create sets an `id` on a record that has none.
WithId(data, items) ==
  IF data.id # NoId THEN Doc(data)
  ELSE [Doc(data) EXCEPT !.id = FreshId(items)]

\* items.create(data)
CreateReplies(container, items, data) ==
  {Failure(e, items) : e \in ProviderErrors}
  \cup
  IF data.id # NoId
     /\ Holds(container, items, PartitionKeyOf(container, data), data.id)
  THEN {Failure(ConflictError, items)}
  ELSE {[ok |-> TRUE, error |-> NoValue,
         items |-> items \cup {WithId(data, items)}, code |-> 201,
         result |-> <<[statusCode |-> 201,
                       resourceBody |-> WithId(data, items)]>>]}

\* The status of one Create of an atomic batch on the content so far.
CreateStatus(container, items, partitionKey, body) ==
  IF PartitionKeyOf(container, body) # partitionKey THEN 400
  ELSE IF body.id # NoId /\ Holds(container, items, partitionKey, body.id)
  THEN 409
  ELSE 201

\* The operations of a batch applied in order; stops at the first failure.
RECURSIVE ApplyBatch(_, _, _, _, _)
ApplyBatch(container, items, partitionKey, operations, done) ==
  IF operations = <<>> THEN [items |-> items, results |-> done, failed |-> 0]
  ELSE LET body   == Head(operations).resourceBody
           status == CreateStatus(container, items, partitionKey, body)
       IN  IF status # 201
           THEN [items |-> items, results |-> done, failed |-> status]
           ELSE ApplyBatch(container, items \cup {WithId(body, items)},
                           partitionKey, Tail(operations),
                           Append(done, [statusCode |-> 201,
                                         resourceBody |-> WithId(body, items)]))

\* The answer of a batch whose operation `f` failed with `status`: nothing
\* is written.
PartialBatch(items, operations, f, status) ==
  [ok |-> TRUE, error |-> NoValue, items |-> items, code |-> 207,
   result |-> [i \in 1..Len(operations) |->
                [statusCode |-> IF i = f THEN status ELSE 424,
                 resourceBody |-> NoValue]]]

\* items.batch(operations, partitionKey): all operations or none.  A failed
\* batch answers code 207 with the failing operation's status and 424 for
\* the others.  The failing operation is the first one the content of the
\* container turns down, or an earlier one the store throttles.
BatchReplies(container, items, operations, partitionKey) ==
  LET run == ApplyBatch(container, items, partitionKey, operations, <<>>)
  IN  {Failure(e, items) : e \in ProviderErrors}
      \cup
      (IF run.failed = 0
       THEN {[ok |-> TRUE, error |-> NoValue, items |-> run.items,
              code |-> 200, result |-> run.results]}
       ELSE {PartialBatch(items, operations, Len(run.results) + 1,
                          run.failed)})
      \cup
      {PartialBatch(items, operations, f, Throttled) :
         f \in 1..Len(run.results)}

\* The operations of a bulk request applied in order; the store throttles
\* the operation at position `throttled` (none at 0).  Without
\* continueOnError the operations after the first failure are not attempted
\* and answer 424.
RECURSIVE ApplyBulk(_, _, _, _, _, _, _)
ApplyBulk(container, items, operations, continueOnError, throttled, done, stopped) ==
  IF operations = <<>> THEN [items |-> items, results |-> done]
  ELSE LET op    == Head(operations)
           found == Holds(container, items, op.partitionKey, op.id)
           item  == Find(container, items, op.partitionKey, op.id)
           rest  == Tail(operations)
       IN  IF stopped
           THEN ApplyBulk(container, items, rest, continueOnError, throttled,
                          Append(done, [statusCode |-> 424,
                                        resourceBody |-> NoValue]), TRUE)
           ELSE IF Len(done) + 1 = throttled
           THEN ApplyBulk(container, items, rest, continueOnError, throttled,
                          Append(done, [statusCode |-> Throttled,
                                        resourceBody |-> NoValue]),
                          ~continueOnError)
           ELSE IF ~found
           THEN ApplyBulk(container, items, rest, continueOnError, throttled,
                          Append(done, [statusCode |-> 404,
                                        resourceBody |-> NoValue]),
                          ~continueOnError)
           ELSE IF op.operationType = "Read"
           THEN ApplyBulk(container, items, rest, continueOnError, throttled,
                          Append(done, [statusCode |-> 200,
                                        resourceBody |-> item]), FALSE)
           ELSE ApplyBulk(container, items \ {item}, rest, continueOnError,
                          throttled,
                          Append(done, [statusCode |-> 204,
                                        resourceBody |-> NoValue]), FALSE)

\* items.bulk(operations, options): one result per operation, in order; the
\* aggregate status is 207 when an operation failed.  A request that passes
\* no continueOnError gets the default of the installed client, which the
\* source does not fix: the store may go on after a failure or stop.
BulkReplies(container, items, operations, continueOnError) ==
  {Failure(e, items) : e \in ProviderErrors}
  \cup
  {LET run == ApplyBulk(container, items, operations, goesOn, throttled,
                        <<>>, FALSE)
   IN  [ok |-> TRUE, error |-> NoValue, items |-> run.items,
        code |-> IF \E i \in 1..Len(run.results) :
                      run.results[i].statusCode >= 400
                 THEN 207 ELSE 200,
        result |-> run.results]
   : goesOn \in (IF continueOnError THEN {TRUE} ELSE BOOLEAN),
     throttled \in 0..Len(operations)}

\* item(id, partition).read(): a missing item answers 404 without throwing.
ReadReplies(container, items, partition, id) ==
  {Failure(e, items) : e \in ProviderErrors}
  \cup
  IF Holds(container, items, partition, id)
  THEN {[ok |-> TRUE, error |-> NoValue, items |-> items, code |-> 200,
         result |-> <<[statusCode |-> 200,
                       resourceBody |-> Find(container, items, partition, id)]>>]}
  ELSE {[ok |-> TRUE, error |-> NoValue, items |-> items, code |-> 404,
         result |-> <<[statusCode |-> 404, resourceBody |-> NoValue]>>]}

RECURSIVE SetToSeq(_)
SetToSeq(S) ==
  IF S = {} THEN <<>>
  ELSE LET x == CHOOSE y \in S : TRUE IN <<x>> \o SetToSeq(S \ {x})

\* items.readAll().fetchAll(): every item of the container.
ReadAllReplies(container, items) ==
  {Failure(e, items) : e \in ProviderErrors}
  \cup
  {[ok |-> TRUE, error |-> NoValue, items |-> items, code |-> 200,
    result |-> SetToSeq(items)]}

\* Whether an item satisfies a query's WHERE clause.
Matches(query, x) ==
  /\ x.type = query.type
  /\ (query.language # "" => x.language = query.language)
  /\ (query.project # "" => query.project \in x.projects)

\* items.query(query).fetchAll() of a COUNT query: one aggregate row.
CountReplies(container, items, query) ==
  {Failure(e, items) : e \in ProviderErrors}
  \cup
  {[ok |-> TRUE, error |-> NoValue, items |-> items, code |-> 200,
    result |-> <<Cardinality({x \in items : Matches(query, x)})>>]}


(***************************************************************************)
(* The state.                                                              *)
(***************************************************************************)
VARIABLES
  dbName,      \* the instance's dbName field
  bulkLimit,   \* the instance's bulkLimit field
  created,     \* what exists in the store of the database and its containers
  store,       \* the content of each container
  pc,          \* "idle", "running" or "done": the current invocation
  call,        \* the current invocation: its method and arguments
  task,        \* per container: the loop of the invocation working on it
  sent,        \* the requests the invocation has dispatched, in order
  replies,     \* the store's answers the invocation has received, in order
  validated,   \* the records validate() has accepted in the invocation
  outcome      \* what the invocation returned or threw

vars == <<dbName, bulkLimit, created, store, pc, call, task, sent, replies, validated, outcome>>

Call(name, container, partitionKey, items, ids, data, count, options) ==
  [name |-> name, container |-> container, partitionKey |-> partitionKey,
   items |-> items, ids |-> ids, data |-> data, count |-> count,
   options |-> options]

NoOptions == [type |-> "", language |-> "", project |-> ""]

NoCall == Call("", "", "", <<>>, <<>>, NoValue, 0, NoOptions)

Request(api, container, operations, partitionKey, continueOnError, no) ==
  [api |-> api, container |-> container, operations |-> operations,
   partitionKey |-> partitionKey, continueOnError |-> continueOnError,
   no |-> no]

Received(reply, req) ==
  [no |-> req.no, container |-> req.container, ok |-> reply.ok,
   code |-> reply.code, result |-> reply.result, error |-> reply.error]

IdleTask == [batches |-> <<>>, idx |-> 0, results |-> <<>>, pending |-> {}]

StoreSize == Cardinality(store["data"]) + Cardinality(store["metadata"])

TypeOK ==
  /\ dbName \in DbNames
  /\ bulkLimit \in 1..MaxBulkLimit
  /\ created \subseteq Resources
  /\ pc \in {"idle", "running", "done"}
  /\ outcome.kind \in {"none", "returned", "thrown"}
  /\ \A c \in Containers : IsFiniteSet(store[c])

\* The state after construction under one of the names `names`.
Constructed(names) ==
  /\ dbName \in names
  /\ bulkLimit \in 1..MaxBulkLimit
  /\ created = Resources
  /\ store = [c \in Containers |-> {}]
  /\ pc = "idle"
  /\ call = NoCall
  /\ task = [c \in Containers |-> IdleTask]
  /\ sent = <<>>
  /\ replies = <<>>
  /\ validated = {}
  /\ outcome = NoOutcome

\* A database constructed under the name used outside production.
Init == Constructed({TestName})

\* A new invocation starts when none is running and the caller holds the
\* result of the one before; callers address a database that is set up.
CanStart == pc = "idle" /\ created = Resources

\* The caller takes the result of the invocation; nothing of the invocation
\* outlives it but the content of the store.
Return ==
  /\ pc = "done"
  /\ \A c \in Containers : task[c].pending = {}
  /\ pc' = "idle"
  /\ call' = NoCall
  /\ task' = [c \in Containers |-> IdleTask]
  /\ sent' = <<>>
  /\ replies' = <<>>
  /\ validated' = {}
  /\ outcome' = NoOutcome
  /\ UNCHANGED <<dbName, bulkLimit, created, store>>

\* The invocation ends: nothing of it stays in flight.
Finish(result) ==
  /\ pc' = "done"
  /\ outcome' = result
  /\ task' = [c \in Containers |-> [task[c] EXCEPT !.pending = {}]]

\* The Create operations of a list of records.
CreateOperations(items) ==
  [i \in 1..Len(items) |->
     [operationType |-> "Create", resourceBody |-> items[i]]]

(***************************************************************************)
(* addOne(container, data)                                                 *)
(***************************************************************************)
\* The provider's message passed on whatever the error.
AddOneMessageRaw(err, data) == err.message

\* The message of the response to a failed create.
AddOneMessage(err, data) ==
  IF err.code = 409 THEN <<"Item with ID", data.id, "already exists.">>
  ELSE err.message

\* items.upsert(data) in the place of items.create(data): an item with the
\* record's partition key and id is replaced.
addOneUpsert(container, items, data) ==
  {Failure(e, items) : e \in ProviderErrors}
  \cup
  LET old == {x \in items :
                /\ data.id # NoId
                /\ x.id = data.id
                /\ PartitionKeyOf(container, x) = PartitionKeyOf(container, data)}
  IN  {[ok |-> TRUE, error |-> NoValue,
        items |-> (items \ old) \cup {WithId(data, items)},
        code |-> IF old = {} THEN 201 ELSE 200,
        result |-> <<[statusCode |-> IF old = {} THEN 201 ELSE 200,
                      resourceBody |-> WithId(data, items)]>>]}

\* this[container].items.create(data)
addOneReplies(container, items, data) == CreateReplies(container, items, data)

addOne(container, data) ==
  /\ CanStart
  /\ StoreSize + 1 <= MaxStore
  /\ call' = Call("addOne", container, "", <<>>, <<>>, data, 0, NoOptions)
  /\ replies' = <<>>
  /\ UNCHANGED <<dbName, bulkLimit, created, store>>
  /\ IF ~validate(data)
     THEN /\ validated' = {}
          /\ sent' = <<>>
          /\ pc' = "done"
          /\ outcome' = Thrown(ValidationError)
          /\ task' = [c \in Containers |-> IdleTask]
     ELSE LET req == Request("create", container, CreateOperations(<<data>>),
                             "", FALSE, 1)
          IN  /\ validated' = {data}
              /\ sent' = <<req>>
              /\ pc' = "running"
              /\ outcome' = NoOutcome
              /\ task' = [c \in Containers |->
                           IF c = container
                           THEN [IdleTask EXCEPT !.pending = {req}]
                           ELSE IdleTask]

addOneResume ==
  /\ pc = "running"
  /\ call.name = "addOne"
  /\ \E req \in task[call.container].pending :
       \E reply \in addOneReplies(call.container, store[call.container],
                                  call.data) :
         /\ store' = [store EXCEPT ![call.container] = reply.items]
         /\ replies' = Append(replies, Received(reply, req))
         /\ IF reply.ok
            THEN Finish(DatabaseResponse(reply.result[1].resourceBody,
                                         NoValue, reply.result[1].statusCode))
            ELSE Finish(DatabaseResponse(NoValue,
                                         AddOneMessage(reply.error, call.data),
                                         reply.error.code))
  /\ UNCHANGED <<dbName, bulkLimit, created, call, sent, validated>>

(***************************************************************************)
(* The loop shared in shape by addMany, seedMany and clearContainer:         *)
(*   for (const batch of batches) { ... await <dispatch of batch> ... }      *)
(***************************************************************************)
\* The requests of the chunks numbered `nos`, in order.
RECURSIVE ChunkRequests(_, _, _, _, _, _, _)
ChunkRequests(api, container, batches, partitionKey, continueOnError, from, to) ==
  IF from > to THEN <<>>
  ELSE <<Request(api, container, batches[from], partitionKey,
                 continueOnError, from)>>
       \o ChunkRequests(api, container, batches, partitionKey,
                        continueOnError, from + 1, to)

\* The invocation working on `container` dispatches `reqs` and suspends.
Dispatch(container, batches, idx, results, reqs) ==
  /\ sent' = sent \o reqs
  /\ task' = [task EXCEPT ![container] =
                [batches |-> batches, idx |-> idx, results |-> results,
                 pending |-> Range(reqs)]]
  /\ pc' = "running"
  /\ outcome' = NoOutcome

(***************************************************************************)
(* addMany(container, partitionKey, items)                                 *)
(***************************************************************************)
\* items.map(resourceBody => ({ operationType, resourceBody }))
addManyOperations(items) == CreateOperations(items)

\* The operations sent as one batch, whatever their number.
addManyBatchesWhole(operations, limit) == <<operations>>

\* chunk(operations, this.bulkLimit)
addManyBatches(operations, limit) == chunk(operations, limit)

\* The `await` left out: the loop dispatches every chunk before it suspends.
addManyNoAwait(batches, i) == Len(batches)

\* The last chunk iteration `i` of addMany's loop dispatches before it
\* suspends: the `await` suspends it on chunk i itself.
addManyAwait(batches, i) == i

\* The check left out: no response counts as a partial failure.
addManyPartialIgnored(response) == FALSE

\* if (response.code === 207)
addManyPartial(response) == response.code = 207

\* The results returned as they are, not their bodies.
addManyDataRaw(results) == results

\* results.map(({ resourceBody }) => resourceBody)
addManyData(results) == [i \in 1..Len(results) |-> results[i].resourceBody]

\* The outcomes of the chunks before put in front of the failing chunk's.
addManyPartialDataAll(results, response) == results \o response.result

\* data: response.result, of the chunk that reported 207
addManyPartialData(results, response) == response.result

\* A catch around the `await` that lets the loop go on to the next chunk.
addManyRejectedCaught(response) == FALSE

\* Whether `await items.batch(...)` throws: the store rejected the request.
addManyRejected(response) == ~response.ok

\* new DatabaseResponse({ data, status: 201 })
addManyStatus == 201

addMany(container, partitionKey, items) ==
  /\ CanStart
  /\ StoreSize + Len(items) <= MaxStore
  /\ call' = Call("addMany", container, partitionKey, items, <<>>, NoValue,
                  0, NoOptions)
  /\ replies' = <<>>
  /\ validated' = {}
  /\ UNCHANGED <<dbName, bulkLimit, created, store>>
  /\ LET batches == addManyBatches(addManyOperations(items), bulkLimit)
     IN  IF batches = <<>>
         THEN /\ sent' = <<>>
              /\ pc' = "done"
              /\ outcome' = DatabaseResponse(addManyData(<<>>), NoValue,
                                             addManyStatus)
              /\ task' = [c \in Containers |-> IdleTask]
         ELSE /\ sent' = ChunkRequests("batch", container, batches,
                                       partitionKey, FALSE, 1,
                                       addManyAwait(batches, 1))
              /\ task' = [c \in Containers |->
                            IF c = container
                            THEN [batches |-> batches, idx |-> 1,
                                  results |-> <<>>, pending |-> Range(sent')]
                            ELSE IdleTask]
              /\ pc' = "running"
              /\ outcome' = NoOutcome

addManyResume ==
  /\ pc = "running"
  /\ call.name = "addMany"
  /\ LET c == call.container
         t == task[c]
     IN  \E req \in t.pending :
           \E reply \in BatchReplies(c, store[c], req.operations,
                                     req.partitionKey) :
             /\ store' = [store EXCEPT ![c] = reply.items]
             /\ replies' = Append(replies, Received(reply, req))
             /\ IF addManyRejected(reply)
                THEN /\ Finish(Thrown(reply.error))
                     /\ sent' = sent
                ELSE IF addManyPartial(reply)
                THEN /\ Finish(DatabaseResponse(
                             addManyPartialData(t.results, reply),
                             NoValue, 207))
                     /\ sent' = sent
                ELSE IF t.idx < Len(t.batches)
                THEN Dispatch(c, t.batches, t.idx + 1,
                              t.results \o reply.result,
                              ChunkRequests("batch", c, t.batches,
                                            call.partitionKey, FALSE,
                                            Len(sent) + 1,
                                            addManyAwait(t.batches, t.idx + 1)))
                ELSE /\ Finish(DatabaseResponse(
                                 addManyData(t.results \o reply.result),
                                 NoValue, addManyStatus))
                     /\ sent' = sent
  /\ UNCHANGED <<dbName, bulkLimit, created, call, validated>>

(***************************************************************************)
(* getOne(container, partition, id)                                        *)
(***************************************************************************)
getOne(container, partition, id) ==
  /\ CanStart
  /\ call' = Call("getOne", container, partition, <<>>, <<id>>, NoValue, 0,
                  NoOptions)
  /\ replies' = <<>>
  /\ validated' = {}
  /\ sent' = <<Request("read", container,
                       <<[operationType |-> "Read", id |-> id,
                          partitionKey |-> partition]>>,
                       partition, FALSE, 1)>>
  /\ task' = [c \in Containers |->
                IF c = container
                THEN [IdleTask EXCEPT !.pending = Range(sent')]
                ELSE IdleTask]
  /\ pc' = "running"
  /\ outcome' = NoOutcome
  /\ UNCHANGED <<dbName, bulkLimit, created, store>>

getOneResume ==
  /\ pc = "running"
  /\ call.name = "getOne"
  /\ LET c == call.container
     IN  \E req \in task[c].pending :
           \E reply \in ReadReplies(c, store[c], call.partitionKey,
                                    call.ids[1]) :
             /\ store' = [store EXCEPT ![c] = reply.items]
             /\ replies' = Append(replies, Received(reply, req))
             /\ IF reply.ok
                THEN Finish(DatabaseResponse(reply.result[1].resourceBody,
                                             NoValue,
                                             reply.result[1].statusCode))
                ELSE Finish(Thrown(reply.error))
  /\ UNCHANGED <<dbName, bulkLimit, created, call, sent, validated>>

(***************************************************************************)
(* getMany(container, partitionKey, ids)                                   *)
(***************************************************************************)
\* The limit off by one: `>=` for `>`.
getManyTooManyOffByOne(ids, limit) == Len(ids) >= limit

\* if (ids.length > this.bulkLimit)
getManyTooMany(ids, limit) == Len(ids) > limit

\* Every id read a second time after the first round of Reads.
ReadOperationsTwice(ids, partitionKey) ==
  [i \in 1..(2 * Len(ids)) |->
     [operationType |-> "Read", id |-> ids[((i - 1) % Len(ids)) + 1],
      partitionKey |-> partitionKey]]

\* ids.map(id => ({ id, operationType, partitionKey }))
ReadOperations(ids, partitionKey) ==
  [i \in 1..Len(ids) |->
     [operationType |-> "Read", id |-> ids[i], partitionKey |-> partitionKey]]

\* Every entry given the id of the first operation.
getManyDataFirstId(results, operations) ==
  [i \in 1..Len(results) |->
     [data |-> results[i].resourceBody, id |-> operations[1].id,
      status |-> results[i].statusCode]]

\* results.map(({ resourceBody, statusCode }, i) => ({ data, id, status }))
getManyData(results, operations) ==
  [i \in 1..Len(results) |->
     [data |-> results[i].resourceBody, id |-> operations[i].id,
      status |-> results[i].statusCode]]

\* new DatabaseResponse({ data, status: 207 })
getManyStatus == 207

getMany(container, partitionKey, ids) ==
  /\ CanStart
  /\ call' = Call("getMany", container, partitionKey, <<>>, ids, NoValue, 0,
                  NoOptions)
  /\ replies' = <<>>
  /\ validated' = {}
  /\ UNCHANGED <<dbName, bulkLimit, created, store>>
  /\ IF getManyTooMany(ids, bulkLimit)
     THEN /\ sent' = <<>>
          /\ pc' = "done"
          /\ outcome' = DatabaseResponse(
                          NoValue,
                          <<"You can only retrieve", bulkLimit,
                            "items at a time.">>,
                          400)
          /\ task' = [c \in Containers |-> IdleTask]
     ELSE /\ sent' = <<Request("bulk", container,
                               ReadOperations(ids, partitionKey), "", TRUE,
                               1)>>
          /\ task' = [c \in Containers |->
                        IF c = container
                        THEN [IdleTask EXCEPT !.pending = Range(sent')]
                        ELSE IdleTask]
          /\ pc' = "running"
          /\ outcome' = NoOutcome

getManyResume ==
  /\ pc = "running"
  /\ call.name = "getMany"
  /\ LET c == call.container
     IN  \E req \in task[c].pending :
           \E reply \in BulkReplies(c, store[c], req.operations,
                                    req.continueOnError) :
             /\ store' = [store EXCEPT ![c] = reply.items]
             /\ replies' = Append(replies, Received(reply, req))
             /\ IF reply.ok
                THEN Finish(DatabaseResponse(
                              getManyData(reply.result, req.operations),
                              NoValue, getManyStatus))
                ELSE Finish(Thrown(reply.error))
  /\ UNCHANGED <<dbName, bulkLimit, created, call, sent, validated>>

(***************************************************************************)
(* count(type, options)                                                    *)
(***************************************************************************)
\* The COUNT query count() builds: the type, and a clause for each option
\* that is set.
countQuery(type, options) ==
  [type |-> type, language |-> options.language, project |-> options.project]

count(type, options) ==
  /\ CanStart
  /\ call' = Call("count", TypeContainer(type), "", <<>>, <<>>, NoValue, 0,
                  countQuery(type, options))
  /\ replies' = <<>>
  /\ validated' = {}
  /\ sent' = <<Request("query", TypeContainer(type), <<>>, "", FALSE, 1)>>
  /\ task' = [c \in Containers |->
                IF c = TypeContainer(type)
                THEN [IdleTask EXCEPT !.pending = Range(sent')]
                ELSE IdleTask]
  /\ pc' = "running"
  /\ outcome' = NoOutcome
  /\ UNCHANGED <<dbName, bulkLimit, created, store>>

countResume ==
  /\ pc = "running"
  /\ call.name = "count"
  /\ LET c == call.container
     IN  \E req \in task[c].pending :
           \E reply \in CountReplies(c, store[c], call.options) :
             /\ store' = [store EXCEPT ![c] = reply.items]
             /\ replies' = Append(replies, Received(reply, req))
             /\ IF reply.ok
                THEN Finish(DatabaseResponse([count |-> reply.result[1]],
                                             NoValue, 200))
                ELSE Finish(Thrown(reply.error))
  /\ UNCHANGED <<dbName, bulkLimit, created, call, sent, validated>>

(***************************************************************************)
(* seedOne(container, data): not an async function; it returns the store's *)
(* own response.                                                           *)
(***************************************************************************)
\* A value returned as it is, with no status of its own.
Returned(value) ==
  [kind |-> "returned", data |-> value, message |-> NoValue, status |-> 0]

seedOne(container, data) ==
  /\ CanStart
  /\ StoreSize + 1 <= MaxStore
  /\ call' = Call("seedOne", container, "", <<>>, <<>>, data, 0, NoOptions)
  /\ replies' = <<>>
  /\ UNCHANGED <<dbName, bulkLimit, created, store>>
  /\ IF ~validate(data)
     THEN /\ validated' = {}
          /\ sent' = <<>>
          /\ pc' = "done"
          /\ outcome' = Thrown(ValidationError)
          /\ task' = [c \in Containers |-> IdleTask]
     ELSE /\ validated' = {data}
          /\ sent' = <<Request("create", container, CreateOperations(<<data>>),
                               "", FALSE, 1)>>
          /\ task' = [c \in Containers |->
                        IF c = container
                        THEN [IdleTask EXCEPT !.pending = Range(sent')]
                        ELSE IdleTask]
          /\ pc' = "running"
          /\ outcome' = NoOutcome

seedOneResume ==
  /\ pc = "running"
  /\ call.name = "seedOne"
  /\ LET c == call.container
     IN  \E req \in task[c].pending :
           \E reply \in CreateReplies(c, store[c], call.data) :
             /\ store' = [store EXCEPT ![c] = reply.items]
             /\ replies' = Append(replies, Received(reply, req))
             /\ IF reply.ok
                THEN Finish(Returned(reply.result[1]))
                ELSE Finish(Thrown(reply.error))
  /\ UNCHANGED <<dbName, bulkLimit, created, call, sent, validated>>

(***************************************************************************)
(* seedMany(container, count, data)                                        *)
(***************************************************************************)
\* const copy = Object.assign({}, data); delete copy.id
seedCopy(data) == [data EXCEPT !.id = NoId]

\* `count` operations, each creating a copy of the record.
seedOperations(n, copy) ==
  [i \in 1..n |-> [operationType |-> "Create", resourceBody |-> copy]]

\* The last chunk iteration `i` of seedMany's loop dispatches before it
\* suspends.
seedManyAwait(batches, i) == i

seedMany(container, n, data) ==
  /\ CanStart
  /\ StoreSize + n <= MaxStore
  /\ call' = Call("seedMany", container,
                  PartitionKeyOf(container, seedCopy(data)), <<>>, <<>>, data,
                  n, NoOptions)
  /\ replies' = <<>>
  /\ UNCHANGED <<dbName, bulkLimit, created, store>>
  /\ IF ~validate(data)
     THEN /\ validated' = {}
          /\ sent' = <<>>
          /\ pc' = "done"
          /\ outcome' = Thrown(ValidationError)
          /\ task' = [c \in Containers |-> IdleTask]
     ELSE LET batches == chunk(seedOperations(n, seedCopy(data)), bulkLimit)
          IN  /\ validated' = {data}
              /\ IF batches = <<>>
                 THEN /\ sent' = <<>>
                      /\ pc' = "done"
                      /\ outcome' = Returned(<<>>)
                      /\ task' = [c \in Containers |-> IdleTask]
                 ELSE /\ sent' = ChunkRequests(
                                   "batch", container, batches,
                                   PartitionKeyOf(container, seedCopy(data)),
                                   FALSE, 1, seedManyAwait(batches, 1))
                      /\ task' = [c \in Containers |->
                                    IF c = container
                                    THEN [batches |-> batches, idx |-> 1,
                                          results |-> <<>>,
                                          pending |-> Range(sent')]
                                    ELSE IdleTask]
                      /\ pc' = "running"
                      /\ outcome' = NoOutcome

seedManyResume ==
  /\ pc = "running"
  /\ call.name = "seedMany"
  /\ LET c == call.container
         t == task[c]
     IN  \E req \in t.pending :
           \E reply \in BatchReplies(c, store[c], req.operations,
                                     req.partitionKey) :
             /\ store' = [store EXCEPT ![c] = reply.items]
             /\ replies' = Append(replies, Received(reply, req))
             /\ IF ~reply.ok
                THEN /\ Finish(Thrown(reply.error))
                     /\ sent' = sent
                ELSE IF t.idx < Len(t.batches)
                THEN Dispatch(c, t.batches, t.idx + 1,
                              t.results \o reply.result,
                              ChunkRequests("batch", c, t.batches,
                                            call.partitionKey, FALSE,
                                            Len(sent) + 1,
                                            seedManyAwait(t.batches, t.idx + 1)))
                ELSE /\ Finish(Returned(t.results \o reply.result))
                     /\ sent' = sent
  /\ UNCHANGED <<dbName, bulkLimit, created, call, validated>>

(***************************************************************************)
(* clearContainer(container)                                               *)
(***************************************************************************)
\* The item's type taken for its partition key in either container.
DeleteOperationsByType(container, batch) ==
  [i \in 1..Len(batch) |->
     [operationType |-> "Delete", id |-> batch[i].id,
      partitionKey |-> batch[i].type]]

\* batch.map(item => ({ id, operationType: `Delete`, partitionKey }))
DeleteOperations(container, batch) ==
  [i \in 1..Len(batch) |->
     [operationType |-> "Delete", id |-> batch[i].id,
      partitionKey |-> PartitionKeyOf(container, batch[i])]]

\* The last chunk iteration `i` of clearContainer's loop dispatches before
\* it suspends.
clearContainerAwait(batches, i) == i

\* The bulk requests of the chunks `from`..`to` of the items read.
RECURSIVE DeleteRequests(_, _, _, _)
DeleteRequests(container, batches, from, to) ==
  IF from > to THEN <<>>
  ELSE <<Request("bulk", container,
                 DeleteOperations(container, batches[from]), "", FALSE, from)>>
       \o DeleteRequests(container, batches, from + 1, to)

clearContainer(container) ==
  /\ CanStart
  /\ call' = Call("clearContainer", container, "", <<>>, <<>>, NoValue, 0,
                  NoOptions)
  /\ replies' = <<>>
  /\ validated' = {}
  /\ sent' = <<Request("readAll", container, <<>>, "", FALSE, 0)>>
  /\ task' = [c \in Containers |->
                IF c = container
                THEN [IdleTask EXCEPT !.pending = Range(sent')]
                ELSE IdleTask]
  /\ pc' = "running"
  /\ outcome' = NoOutcome
  /\ UNCHANGED <<dbName, bulkLimit, created, store>>

\* The items are read: the loop starts.
clearContainerRead ==
  /\ pc = "running"
  /\ call.name = "clearContainer"
  /\ LET c == call.container
     IN  \E req \in task[c].pending :
           /\ req.api = "readAll"
           /\ \E reply \in ReadAllReplies(c, store[c]) :
                /\ store' = [store EXCEPT ![c] = reply.items]
                /\ replies' = Append(replies, Received(reply, req))
                /\ IF ~reply.ok
                   THEN /\ Finish(Thrown(reply.error))
                        /\ sent' = sent
                   ELSE LET batches == chunk(reply.result, bulkLimit)
                        IN  IF batches = <<>>
                            THEN /\ Finish(Returned(NoValue))
                                 /\ sent' = sent
                            ELSE Dispatch(c, batches, 1, <<>>,
                                          DeleteRequests(
                                            c, batches, 1,
                                            clearContainerAwait(batches, 1)))
  /\ UNCHANGED <<dbName, bulkLimit, created, call, validated>>

clearContainerResume ==
  /\ pc = "running"
  /\ call.name = "clearContainer"
  /\ LET c == call.container
         t == task[c]
     IN  \E req \in t.pending :
           /\ req.api = "bulk"
           /\ \E reply \in BulkReplies(c, store[c], req.operations,
                                       req.continueOnError) :
                /\ store' = [store EXCEPT ![c] = reply.items]
                /\ replies' = Append(replies, Received(reply, req))
                /\ IF ~reply.ok
                   THEN /\ Finish(Thrown(reply.error))
                        /\ sent' = sent
                   ELSE IF t.idx < Len(t.batches)
                   THEN Dispatch(c, t.batches, t.idx + 1, <<>>,
                                 DeleteRequests(
                                   c, t.batches, Len(sent),
                                   clearContainerAwait(t.batches, t.idx + 1)))
                   ELSE /\ Finish(Returned(NoValue))
                        /\ sent' = sent
  /\ UNCHANGED <<dbName, bulkLimit, created, call, validated>>

(***************************************************************************)
(* delete()                                                                *)
(***************************************************************************)
\* The error delete() throws on the production database: it carries no code.
DeleteGuardError ==
  [code |-> 0, message |-> <<"This error is here to guard against accidental deletion.">>]

\* The answer to a request for a database that does not exist.
NotFoundError == [code |-> 404, message |-> <<"NotFound">>]

\* No guard: every database is deleted, whatever its name.
deleteGuardNone(name) == FALSE

\* if (this.dbName === `digitallinguistics`)
deleteGuard(name) == name = ProductionName

\* database.delete(): the database goes with its containers and their items.
DatabaseDeleteReplies(existing) ==
  {Failure(e, {}) : e \in ProviderErrors}
  \cup
  IF "database" \in existing
  THEN {[ok |-> TRUE, error |-> NoValue, items |-> {}, code |-> 204,
         result |-> <<>>]}
  ELSE {Failure(NotFoundError, {})}

delete ==
  /\ pc = "idle"
  /\ call' = Call("delete", "", "", <<>>, <<>>, NoValue, 0, NoOptions)
  /\ replies' = <<>>
  /\ validated' = {}
  /\ task' = [c \in Containers |-> IdleTask]
  /\ UNCHANGED <<dbName, bulkLimit, created, store>>
  /\ IF deleteGuard(dbName)
     THEN /\ sent' = <<>>
          /\ pc' = "done"
          /\ outcome' = Thrown(DeleteGuardError)
     ELSE /\ sent' = <<Request("database.delete", "", <<>>, "", FALSE, 1)>>
          /\ pc' = "running"
          /\ outcome' = NoOutcome

deleteResume ==
  /\ pc = "running"
  /\ call.name = "delete"
  /\ \E reply \in DatabaseDeleteReplies(created) :
       /\ replies' = Append(replies, Received(reply, sent[1]))
       /\ IF reply.ok
          THEN /\ created' = {}
               /\ store' = [c \in Containers |-> {}]
               /\ Finish(Returned(NoValue))
          ELSE /\ UNCHANGED <<created, store>>
               /\ Finish(Thrown(reply.error))
  /\ UNCHANGED <<dbName, bulkLimit, call, sent, validated>>

(***************************************************************************)
(* setup()                                                                 *)
(***************************************************************************)
\* What the three createIfNotExists calls of setup() create, in order.
setupSteps == <<"database", "data", "metadata">>

\* createIfNotExists: what exists is left as it is.
CreateIfNotExistsReplies ==
  {Failure(e, {}) : e \in ProviderErrors}
  \cup
  {[ok |-> TRUE, error |-> NoValue, items |-> {}, code |-> 200,
    result |-> <<>>]}

setup ==
  /\ pc = "idle"
  /\ call' = Call("setup", "", "", <<>>, <<>>, NoValue, 0, NoOptions)
  /\ replies' = <<>>
  /\ validated' = {}
  /\ task' = [c \in Containers |-> IdleTask]
  /\ sent' = <<Request("createIfNotExists", setupSteps[1], <<>>, "", FALSE, 1)>>
  /\ pc' = "running"
  /\ outcome' = NoOutcome
  /\ UNCHANGED <<dbName, bulkLimit, created, store>>

setupResume ==
  /\ pc = "running"
  /\ call.name = "setup"
  /\ LET step == Len(sent)
     IN  \E reply \in CreateIfNotExistsReplies :
           /\ replies' = Append(replies, Received(reply, sent[step]))
           /\ IF ~reply.ok
              THEN /\ Finish(Thrown(reply.error))
                   /\ UNCHANGED <<created, sent>>
              ELSE /\ created' = created \cup {setupSteps[step]}
                   /\ IF step < Len(setupSteps)
                      THEN /\ sent' = Append(sent,
                                        Request("createIfNotExists",
                                                setupSteps[step + 1], <<>>,
                                                "", FALSE, step + 1))
                           /\ UNCHANGED <<pc, outcome, task>>
                      ELSE /\ Finish(Returned(NoValue))
                           /\ sent' = sent
  /\ UNCHANGED <<dbName, bulkLimit, store, call, validated>>

(***************************************************************************)
(* clear()                                                                 *)
(***************************************************************************)
\* The containers clear() clears, in the order it calls clearContainer.
clearContainers == <<"data", "metadata">>

\* Promise.any in the place of Promise.all: clear() resolves with the first
\* clearContainer that resolves.
clearResolvedAny(container) == TRUE

\* Promise.all resolves when the clearContainer of `container` resolves and
\* every other one has resolved.
clearResolved(container) ==
  \A d \in Containers \ {container} : task[d].pending = {}

\* Both clearContainer invocations run up to their first `await` before
\* clear() suspends on Promise.all.
clear ==
  /\ CanStart
  /\ call' = Call("clear", "", "", <<>>, <<>>, NoValue, 0, NoOptions)
  /\ replies' = <<>>
  /\ validated' = {}
  /\ sent' = [i \in 1..Len(clearContainers) |->
                Request("readAll", clearContainers[i], <<>>, "", FALSE, 0)]
  /\ task' = [c \in Containers |->
                [IdleTask EXCEPT !.pending =
                   {Request("readAll", c, <<>>, "", FALSE, 0)}]]
  /\ pc' = "running"
  /\ outcome' = NoOutcome
  /\ UNCHANGED <<dbName, bulkLimit, created, store>>

\* The clearContainer of `container` ends with `result`.  Promise.all
\* rejects with the first rejection, while the other clearContainer goes on,
\* and resolves once every clearContainer has resolved.
clearSettle(container, result) ==
  /\ task' = [task EXCEPT ![container].pending = {}]
  /\ IF pc = "done"
     THEN UNCHANGED <<pc, outcome>>
     ELSE IF result.kind = "thrown"
     THEN /\ pc' = "done"
          /\ outcome' = result
     ELSE IF clearResolved(container)
     THEN /\ pc' = "done"
          /\ outcome' = Returned(NoValue)
     ELSE UNCHANGED <<pc, outcome>>

\* The clearContainer of `container` dispatches `reqs` and suspends.
clearDispatch(container, batches, idx, reqs) ==
  /\ sent' = sent \o reqs
  /\ task' = [task EXCEPT ![container] =
                [batches |-> batches, idx |-> idx, results |-> <<>>,
                 pending |-> Range(reqs)]]
  /\ UNCHANGED <<pc, outcome>>

\* The items of `container` are read: its loop starts.
clearRead(container) ==
  /\ call.name = "clear"
  /\ \E req \in task[container].pending :
       /\ req.api = "readAll"
       /\ \E reply \in ReadAllReplies(container, store[container]) :
            /\ store' = [store EXCEPT ![container] = reply.items]
            /\ replies' = Append(replies, Received(reply, req))
            /\ IF ~reply.ok
               THEN /\ clearSettle(container, Thrown(reply.error))
                    /\ sent' = sent
               ELSE LET batches == chunk(reply.result, bulkLimit)
                    IN  IF batches = <<>>
                        THEN /\ clearSettle(container, Returned(NoValue))
                             /\ sent' = sent
                        ELSE clearDispatch(
                               container, batches, 1,
                               DeleteRequests(container, batches, 1,
                                              clearContainerAwait(batches, 1)))
  /\ UNCHANGED <<dbName, bulkLimit, created, call, validated>>

\* A chunk of `container` is answered: its loop goes on or ends.
clearResume(container) ==
  /\ call.name = "clear"
  /\ LET t == task[container]
     IN  \E req \in t.pending :
           /\ req.api = "bulk"
           /\ \E reply \in BulkReplies(container, store[container],
                                       req.operations, req.continueOnError) :
                /\ store' = [store EXCEPT ![container] = reply.items]
                /\ replies' = Append(replies, Received(reply, req))
                /\ IF ~reply.ok
                   THEN /\ clearSettle(container, Thrown(reply.error))
                        /\ sent' = sent
                   ELSE IF t.idx < Len(t.batches)
                   THEN clearDispatch(
                          container, t.batches, t.idx + 1,
                          DeleteRequests(
                            container, t.batches, t.idx + 1,
                            clearContainerAwait(t.batches, t.idx + 1)))
                   ELSE /\ clearSettle(container, Returned(NoValue))
                        /\ sent' = sent
  /\ UNCHANGED <<dbName, bulkLimit, created, call, validated>>

(***************************************************************************)
(* getProjects(options)                                                    *)
(***************************************************************************)
\* A project is a record of type `Project` with its permissions.
Project(id, public, owners, editors, viewers) ==
  [id |-> id, language |-> "", type |-> "Project", projects |-> {},
   valid |-> TRUE,
   permissions |-> [public |-> public, owners |-> owners,
                    editors |-> editors, viewers |-> viewers]]

\* The projects callers add: a public one owned by u2, private ones that u1
\* owns, edits and views, and a private one owned by u2.
ProjectRecords ==
  { Project(1, TRUE, {"u2"}, {}, {}),
    Project(2, FALSE, {"u1"}, {}, {}),
    Project(3, FALSE, {}, {"u1"}, {}),
    Project(4, FALSE, {}, {}, {"u1"}),
    Project(5, FALSE, {"u2"}, {}, {}) }

\* The options callers pass: none, an empty user, the user u1 or u2.
ProjectOptions ==
  { [k \in {} |-> ""], [user |-> ""], [user |-> "u1"], [user |-> "u2"] }

\* The filter applied whenever options.user is truthy, none otherwise.
getProjectsFilterTruthy(options) ==
  IF "user" \in DOMAIN options /\ options.user # ""
  THEN [by |-> "user", user |-> options.user]
  ELSE [by |-> "none", user |-> ""]

\* if (`user` in options) { if (options.user) ... else ... }
getProjectsFilter(options) ==
  IF "user" \in DOMAIN options
  THEN IF options.user # ""
       THEN [by |-> "user", user |-> options.user]
       ELSE [by |-> "public", user |-> ""]
  ELSE [by |-> "none", user |-> ""]

\* The query of getProjects: its type and the filter of its WHERE clause.
getProjectsQuery(options) ==
  [type |-> "Project", filter |-> getProjectsFilter(options)]

\* Whether an item satisfies the WHERE clause of the query.
ProjectMatches(query, x) ==
  /\ x.type = query.type
  /\ CASE query.filter.by = "none" -> TRUE
       [] query.filter.by = "public" -> x.permissions.public
       [] query.filter.by = "user" ->
            \/ x.permissions.public
            \/ query.filter.user \in x.permissions.owners
            \/ query.filter.user \in x.permissions.editors
            \/ query.filter.user \in x.permissions.viewers

\* The next page of items.query(query).getAsyncIterator() after the items
\* `fetched`: some of the matching items left, and whether more are left.
QueryPageReplies(container, items, query, fetched) ==
  LET rest == SetToSeq({x \in items : ProjectMatches(query, x)}
                         \ Range(fetched))
  IN  {Failure(e, items) : e \in ProviderErrors}
      \cup
      {[ok |-> TRUE, error |-> NoValue, items |-> items, code |-> 200,
        result |-> SubSeq(rest, 1, n), more |-> n < Len(rest)]
       : n \in (IF rest = <<>> THEN {0} ELSE 1..Len(rest))}

getProjects(options) ==
  /\ CanStart
  /\ call' = Call("getProjects", "metadata", "", <<>>, <<>>, NoValue, 0,
                  options)
  /\ replies' = <<>>
  /\ validated' = {}
  /\ sent' = <<Request("query", "metadata", <<getProjectsQuery(options)>>,
                       "", FALSE, 1)>>
  /\ task' = [c \in Containers |->
                IF c = "metadata"
                THEN [IdleTask EXCEPT !.pending = Range(sent')]
                ELSE IdleTask]
  /\ pc' = "running"
  /\ outcome' = NoOutcome
  /\ UNCHANGED <<dbName, bulkLimit, created, store>>

\* for await (const result of queryIterator) data.push(...result.resources)
getProjectsResume ==
  /\ pc = "running"
  /\ call.name = "getProjects"
  /\ LET c == call.container
         t == task[c]
     IN  \E req \in t.pending :
           \E reply \in QueryPageReplies(c, store[c], req.operations[1],
                                         t.results) :
             /\ store' = [store EXCEPT ![c] = reply.items]
             /\ replies' = Append(replies, Received(reply, req))
             /\ IF ~reply.ok
                THEN /\ Finish(Thrown(reply.error))
                     /\ sent' = sent
                ELSE IF reply.more
                THEN Dispatch(c, <<>>, t.idx + 1, t.results \o reply.result,
                              <<Request("query", c, req.operations, "", FALSE,
                                        req.no + 1)>>)
                ELSE /\ Finish(DatabaseResponse(t.results \o reply.result,
                                                NoValue, 200))
                     /\ sent' = sent
  /\ UNCHANGED <<dbName, bulkLimit, created, call, validated>>

Next ==
  \/ \E c \in Containers, data \in AddOneRecords : addOne(c, data)
  \/ addOneResume
  \/ \E c \in Containers :
       \E partitionKey \in PartitionKeys(c), items \in SeqsUpTo(Records, MaxItems) :
         addMany(c, partitionKey, items)
  \/ addManyResume
  \/ \E c \in Containers :
       \E partition \in PartitionKeys(c), id \in RequestIds :
         getOne(c, partition, id)
  \/ getOneResume
  \/ \E c \in Containers :
       \* id lists up to one id beyond the limit: longer ones fare alike
       \E partitionKey \in PartitionKeys(c),
          ids \in SeqsUpTo(RequestIds, Min(MaxItems, bulkLimit + 1)) :
         getMany(c, partitionKey, ids)
  \/ getManyResume
  \/ \E type \in Types, language \in {"", "l1"}, project \in {"", "p1"} :
       count(type, [language |-> language, project |-> project])
  \/ countResume
  \/ \E c \in Containers, data \in SeedRecords : seedOne(c, data)
  \/ seedOneResume
  \/ \E c \in Containers, n \in 0..MaxItems, data \in SeedRecords :
       seedMany(c, n, data)
  \/ seedManyResume
  \/ \E c \in Containers : clearContainer(c)
  \/ clearContainerRead
  \/ clearContainerResume
  \/ Return

Spec == Init /\ [][Next]_vars

\* The administrative methods, on a database constructed under either name.
InitAdmin == Constructed(DbNames)

NextAdmin ==
  \/ \E c \in Containers, data \in SeedRecords : seedOne(c, data)
  \/ seedOneResume
  \/ \E c \in Containers, n \in 0..MaxItems, data \in SeedRecords :
       seedMany(c, n, data)
  \/ seedManyResume
  \/ clear
  \/ \E c \in Containers : clearRead(c)
  \/ \E c \in Containers : clearResume(c)
  \/ delete
  \/ deleteResume
  \/ setup
  \/ setupResume
  \/ Return

SpecAdmin == InitAdmin /\ [][NextAdmin]_vars

\* Projects, and a language beside them, added one by one and listed.
NextProjects ==
  \/ \E data \in ProjectRecords \cup {R2} :
       addOne(TypeContainer(data.type), data)
  \/ addOneResume
  \/ \E options \in ProjectOptions : getProjects(options)
  \/ getProjectsResume
  \/ Return

SpecProjects == Init /\ [][NextProjects]_vars

(***************************************************************************)
(* Properties.                                                             *)
(***************************************************************************)
\* The operations of the requests dispatched so far, in dispatch order.
SentOperations == Flatten([j \in 1..Len(sent) |-> sent[j].operations])

\* The answers received so far that report a partial failure.
PartialReplies == {r \in 1..Len(replies) : replies[r].ok /\ replies[r].code = 207}

\* C1: addMany dispatches its chunks in input order, and once a chunk has
\* reported aggregate status 207 no later chunk is dispatched: the failing
\* chunk is the last one sent and the invocation has returned status 207.
C1_AddManyFailFast ==
  call.name = "addMany" =>
    /\ \A j \in 1..Len(sent) : sent[j].api = "batch" /\ sent[j].no = j
    /\ SentOperations
         = SubSeq(CreateOperations(call.items), 1, Len(SentOperations))
    /\ \A r \in PartialReplies :
         /\ replies[r].no = Len(sent)
         /\ pc = "done"
         /\ outcome.kind = "returned"
         /\ outcome.status = 207

\* Three chunks were due, the second reported 207, and two were dispatched.
C1_Witness ==
  /\ call.name = "addMany"
  /\ Len(task[call.container].batches) = 3
  /\ \E r \in PartialReplies : replies[r].no = 2
  /\ Len(sent) = 2
  /\ outcome.status = 207

\* C2: getMany with more ids than bulkLimit returns status 400 without any
\* dispatch; with bulkLimit ids or fewer it is not answered 400 and
\* dispatches exactly one bulk request holding one Read per requested id.
C2_GetManyLimit ==
  call.name = "getMany" =>
    IF Len(call.ids) > bulkLimit
    THEN /\ pc = "done"
         /\ outcome.kind = "returned"
         /\ outcome.status = 400
         /\ sent = <<>>
    ELSE /\ ~(outcome.kind = "returned" /\ outcome.status = 400)
         /\ Len(sent) = 1
         /\ sent[1].api = "bulk"
         /\ Len(sent[1].operations) = Len(call.ids)
         /\ \A i \in 1..Len(call.ids) :
              /\ sent[1].operations[i].operationType = "Read"
              /\ sent[1].operations[i].id = call.ids[i]

\* One id more than bulkLimit was requested of a container that holds
\* items, and the call was answered 400.
C2_Witness ==
  /\ call.name = "getMany"
  /\ Len(call.ids) = bulkLimit + 1
  /\ store[call.container] # {}
  /\ outcome.kind = "returned"
  /\ outcome.status = 400

\* The methods that answer with a DatabaseResponse.
PublicOperations == {"addOne", "addMany", "getOne", "getMany", "count"}

\* C3: every public operation completes by returning a response, never by
\* an unhandled failure, whatever the validator or the store does.
C3_AlwaysReturns ==
  (pc = "done" /\ call.name \in PublicOperations) => outcome.kind = "returned"

\* C4: a getMany call with at most bulkLimit ids answers status 207 with one
\* entry per requested id, in request order, entry i carrying ids[i] and the
\* sub-status the store gave that id: 200 with the item for an id the
\* partition holds, 404 for one it does not, unless the store throttled the
\* Read of that id.
C4_GetManyEntries ==
  ( /\ call.name = "getMany"
    /\ Len(call.ids) <= bulkLimit
    /\ pc = "done"
    /\ outcome.kind = "returned" ) =>
    LET c == call.container
    IN  /\ outcome.status = 207
        /\ Len(outcome.data) = Len(call.ids)
        /\ \A i \in 1..Len(call.ids) :
             /\ outcome.data[i].id = call.ids[i]
             /\ outcome.data[i].status = replies[1].result[i].statusCode
             /\ IF outcome.data[i].status = Throttled
                THEN outcome.data[i].data = NoValue
                ELSE IF Holds(c, store[c], call.partitionKey, call.ids[i])
                THEN /\ outcome.data[i].status = 200
                     /\ outcome.data[i].data
                          = Find(c, store[c], call.partitionKey, call.ids[i])
                ELSE outcome.data[i].status = 404

\* Two ids were requested, the first held by the partition and the second
\* not: two entries, 200 and 404, under status 207.
C4_Witness ==
  /\ call.name = "getMany"
  /\ pc = "done"
  /\ outcome.kind = "returned"
  /\ outcome.status = 207
  /\ Len(call.ids) = 2
  /\ call.ids[1] # call.ids[2]
  /\ outcome.data[1].status = 200
  /\ outcome.data[2].status = 404

\* The message addOne gives for a conflict on the id `id`.
ConflictMessage(id) == <<"Item with ID", id, "already exists.">>

\* C5: an addOne whose create fails with code 409 answers status 409 and
\* the message "Item with ID <id> already exists." for the submitted
\* record's id; one whose create fails with another provider error answers
\* that error's code and message.
C5_AddOneFailure ==
  ( /\ call.name = "addOne"
    /\ pc = "done"
    /\ Len(replies) = 1
    /\ ~replies[1].ok ) =>
    /\ outcome.kind = "returned"
    /\ outcome.status = replies[1].error.code
    /\ IF replies[1].error.code = 409
       THEN outcome.message = ConflictMessage(call.data.id)
       ELSE outcome.message = replies[1].error.message

\* An addOne of a record whose id the partition already holds was answered
\* 409 with the conflict message.
C5_Witness ==
  /\ call.name = "addOne"
  /\ pc = "done"
  /\ Len(replies) = 1
  /\ replies[1].error = ConflictError
  /\ outcome.status = 409
  /\ outcome.message = ConflictMessage(1)

\* The result bodies of all the answers received, in order.
ReceivedBodies ==
  LET results == Flatten([r \in 1..Len(replies) |-> replies[r].result])
  IN  [i \in 1..Len(results) |-> results[i].resourceBody]

\* The document the store keeps for a record submitted: the record, with an
\* id assigned if it had none.
IsDocumentOf(doc, item) ==
  /\ doc = [Doc(item) EXCEPT !.id = doc.id]
  /\ doc.id # NoId
  /\ (item.id # NoId => doc.id = item.id)

\* C6: an addMany that returns with no chunk having reported 207 answers
\* status 201, and its data is the result bodies of all operations of all
\* chunks in chunk order: one body per input item, in input order.
C6_AddManySuccess ==
  ( /\ call.name = "addMany"
    /\ pc = "done"
    /\ outcome.kind = "returned"
    /\ PartialReplies = {} ) =>
    /\ outcome.status = 201
    /\ outcome.data = ReceivedBodies
    /\ Len(outcome.data) = Len(call.items)
    /\ \A i \in 1..Len(call.items) :
         IsDocumentOf(outcome.data[i], call.items[i])

\* Three items went out in more than one chunk and the call answered 201.
C6_Witness ==
  /\ call.name = "addMany"
  /\ pc = "done"
  /\ outcome.kind = "returned"
  /\ outcome.status = 201
  /\ Len(call.items) = 3
  /\ Len(sent) >= 2
  /\ Len(outcome.data) = 3

\* C7: an addMany of n items under bulkLimit k that returns with no chunk
\* having reported 207 has dispatched exactly ceil(n/k) batches; their
\* operations in dispatch order are the input items in input order, every
\* chunk but the last has k operations, no chunk is empty, and n = 0 gives
\* no dispatch.
C7_AddManyChunks ==
  ( /\ call.name = "addMany"
    /\ pc = "done"
    /\ outcome.kind = "returned"
    /\ PartialReplies = {} ) =>
    LET n == Len(call.items)
        k == bulkLimit
    IN  /\ Len(sent) = (n + k - 1) \div k
        /\ SentOperations = CreateOperations(call.items)
        /\ \A j \in 1..Len(sent) :
             /\ Len(sent[j].operations) >= 1
             /\ Len(sent[j].operations) <= k
             /\ (j < Len(sent) => Len(sent[j].operations) = k)
        /\ (n = 0 => sent = <<>>)

\* Three items under bulkLimit 2: two batches, of two and of one operation.
C7_Witness ==
  /\ call.name = "addMany"
  /\ pc = "done"
  /\ outcome.kind = "returned"
  /\ outcome.status = 201
  /\ Len(call.items) = 3
  /\ bulkLimit = 2
  /\ Len(sent) = 2
  /\ Len(sent[2].operations) = 1

\* The invocations that dispatch chunk by chunk.
ChunkedOperations == {"addMany", "seedMany", "clearContainer"}

\* C8: within one invocation of addMany, seedMany or clearContainer at most
\* one chunk dispatch is in flight: a chunk is dispatched only after the
\* outcome of every chunk before it has been received.
C8_OneInFlight ==
  call.name \in ChunkedOperations =>
    /\ \A c \in Containers : Cardinality(task[c].pending) <= 1
    /\ Len(sent) <= Len(replies) + 1
    /\ \A c \in Containers :
         \A req \in task[c].pending : req = sent[Len(sent)]

\* The second chunk of an addMany is in flight and the outcome of the first
\* has been received.
C8_Witness ==
  /\ call.name = "addMany"
  /\ pc = "running"
  /\ Len(replies) = 1
  /\ \E req \in task[call.container].pending : req.no = 2

\* C9: a Create is dispatched only for a record validate() has accepted in
\* the invocation (for seedMany, for the copy of that record).
C9_ValidatedBeforeWrite ==
  \A j \in 1..Len(sent) :
    sent[j].api \in {"create", "batch"} =>
      \A i \in 1..Len(sent[j].operations) :
        \E v \in validated :
          seedCopy(v) = seedCopy(sent[j].operations[i].resourceBody)

\* An addOne of a record whose id an item of the container carries is
\* waiting for the store's answer.
RetryPending ==
  /\ call.name = "addOne"
  /\ pc = "running"
  /\ \E x \in store[call.container] : x.id = call.data.id

\* C10 as stated: an addOne of an id that the store already holds leaves the
\* store as it is and answers 409 with the conflict message, every time.
C10_RetryAlwaysConflict ==
  [][RetryPending =>
       /\ store' = store
       /\ outcome' = DatabaseResponse(NoValue,
                                      ConflictMessage(call.data.id), 409)]_vars

\* An addOne of a record whose id the record's own partition of the
\* container holds is waiting for the store's answer.
RetryPendingSamePartition ==
  /\ call.name = "addOne"
  /\ pc = "running"
  /\ call.data.id # NoId
  /\ Holds(call.container, store[call.container],
           PartitionKeyOf(call.container, call.data), call.data.id)

\* An addOne of a record that validate() rejects is being called.
InvalidAddOne ==
  /\ pc = "idle"
  /\ call'.name = "addOne"
  /\ ~validate(call'.data)

\* C10: an addOne of a record whose id is already held in the record's
\* partition of the container leaves the store as it is, every time, and
\* answers either 409 with the conflict message or, when the store fails the
\* call with another provider error, that error's code and message; an
\* addOne of a record that fails validation throws without a store call.
C10_RetrySafe ==
  [][ /\ RetryPendingSamePartition =>
           /\ store' = store
           /\ pc' = "done"
           /\ outcome'.kind = "returned"
           /\ IF replies'[1].error = ConflictError
              THEN /\ outcome'.status = 409
                   /\ outcome'.message = ConflictMessage(call.data.id)
              ELSE /\ replies'[1].error \in ProviderErrors
                   /\ outcome'.status = replies'[1].error.code
                   /\ outcome'.message = replies'[1].error.message
      /\ InvalidAddOne =>
           /\ store' = store
           /\ sent' = <<>>
           /\ pc' = "done"
           /\ outcome' = Thrown(ValidationError) ]_vars

\* An addOne of id 1 was answered with the conflict, the store holding the
\* item it held before.
C10_Witness ==
  /\ call.name = "addOne"
  /\ pc = "done"
  /\ call.data.id = 1
  /\ Holds(call.container, store[call.container],
           PartitionKeyOf(call.container, call.data), 1)
  /\ outcome.kind = "returned"
  /\ outcome.status = 409
  /\ outcome.message = ConflictMessage(1)

(***************************************************************************)
(* Properties of the administrative methods.                               *)
(***************************************************************************)
\* The database-delete calls the invocation has issued.
DatabaseDeletes == {j \in 1..Len(sent) : sent[j].api = "database.delete"}

\* C11: delete() on the production database throws the guard's error and
\* issues no database-delete call, and that database is never removed;
\* delete() on a database of another name issues the database-delete call
\* exactly once; no other method issues it.
C11_DeleteGuard ==
  /\ dbName = ProductionName => created = Resources
  /\ call.name # "delete" => DatabaseDeletes = {}
  /\ call.name = "delete" =>
       IF dbName = ProductionName
       THEN /\ pc = "done"
            /\ outcome = Thrown(DeleteGuardError)
            /\ sent = <<>>
       ELSE /\ Cardinality(DatabaseDeletes) = 1
            /\ Len(sent) = 1

\* delete() on the production database has thrown, the containers holding
\* their items.
C11_Witness ==
  /\ call.name = "delete"
  /\ dbName = ProductionName
  /\ pc = "done"
  /\ outcome.kind = "thrown"
  /\ StoreSize > 0

(***************************************************************************)
(* Properties of getProjects.                                              *)
(***************************************************************************)
\* The projects the container holds.
StoredProjects == {x \in store["metadata"] : x.type = "Project"}

\* The projects `user` may see: the public ones and those listing the user
\* among their owners, editors or viewers.
VisibleTo(user) ==
  {x \in StoredProjects :
     \/ x.permissions.public
     \/ user \in x.permissions.owners \cup x.permissions.editors
                   \cup x.permissions.viewers}

\* C12: the data getProjects returns holds, each once, all the projects when
\* the options have no `user` key, the public projects when the key is
\* there with an empty value, and the projects public or listing the user as
\* owner, editor or viewer when it names a user.
C12_GetProjectsFilter ==
  (call.name = "getProjects" /\ pc = "done" /\ outcome.kind = "returned") =>
    LET expected ==
          IF "user" \notin DOMAIN call.options THEN StoredProjects
          ELSE IF call.options.user = ""
          THEN {x \in StoredProjects : x.permissions.public}
          ELSE VisibleTo(call.options.user)
    IN  /\ Range(outcome.data) = expected
        /\ Len(outcome.data) = Cardinality(expected)

\* getProjects({ user: '' }) has returned the one public project of a
\* container that holds private projects and a language too.
C12_Witness ==
  /\ call.name = "getProjects"
  /\ pc = "done"
  /\ outcome.kind = "returned"
  /\ "user" \in DOMAIN call.options
  /\ call.options.user = ""
  /\ Len(outcome.data) = 1
  /\ Cardinality(StoredProjects) = 2
  /\ Cardinality(store["metadata"]) = 3

(***************************************************************************)
(* Properties of the batch and bulk dispatches.                            *)
(***************************************************************************)
\* C13: the batches of an invocation all carry one partition key, and every
\* record of a dispatched batch has that partition key in the container.
C13_SinglePartition ==
  \A j \in 1..Len(sent) :
    sent[j].api = "batch" =>
      /\ sent[j].partitionKey = sent[1].partitionKey
      /\ \A i \in 1..Len(sent[j].operations) :
           PartitionKeyOf(sent[j].container,
                          sent[j].operations[i].resourceBody)
             = sent[j].partitionKey

\* C14: in seedMany and in clearContainer, a chunk answered with the
\* aggregate status 207 is the last chunk the invocation dispatches.
C14_AdminFailFast ==
  call.name \in {"seedMany", "clearContainer"} =>
    \A r \in 1..Len(replies) :
      replies[r].code = 207 => replies[r].no = sent[Len(sent)].no

\* The documents the store reports written in an answer.
WrittenBy(reply) ==
  {reply.result[i].resourceBody : i \in 1..Len(reply.result)} \ {NoValue}

\* C15: every step of an addMany leaves in the container what it held and
\* adds what the chunk just answered wrote, nothing else; and the step that
\* returns 207 on chunk k returns the outcomes of chunk k alone, one per
\* operation of the chunk, writes nothing, dispatches nothing, and leaves
\* the documents of the chunks 1..k-1 in the container.
C15_PartialFrame ==
  [][ (call'.name = "addMany" /\ pc' # "idle") =>
        LET c == call'.container
            k == Len(sent)
        IN  /\ \A d \in Containers \ {c} : store'[d] = store[d]
            /\ IF pc = "idle"
               THEN store'[c] = store[c]
               ELSE store'[c] = store[c] \cup WrittenBy(replies'[Len(replies')])
            /\ (outcome'.kind = "returned" /\ outcome'.status = 207) =>
                 /\ replies'[Len(replies')].no = k
                 /\ outcome'.data = replies'[Len(replies')].result
                 /\ Len(outcome'.data) = Len(sent[k].operations)
                 /\ store' = store
                 /\ sent' = sent
                 /\ \A j \in 1..(k - 1) :
                      /\ replies'[j].no = j
                      /\ Len(replies'[j].result) = Len(sent[j].operations)
                      /\ WrittenBy(replies'[j]) \subseteq store'[c]
                      /\ Cardinality(WrittenBy(replies'[j]))
                           = Len(sent[j].operations) ]_vars

\* An addMany of three chunks has returned 207 with the one outcome of its
\* second chunk; the document of the first chunk is in the container.
C15_Witness ==
  /\ call.name = "addMany"
  /\ pc = "done"
  /\ outcome.kind = "returned"
  /\ outcome.status = 207
  /\ Len(call.items) = 3
  /\ bulkLimit = 1
  /\ Len(sent) = 2
  /\ Len(outcome.data) = 1
  /\ WrittenBy(replies[1]) # {}
  /\ WrittenBy(replies[1]) \subseteq store[call.container]

\* C16: in addMany, seedMany and clearContainer, a request the store fails
\* with a provider error is the last request of the invocation, which has
\* thrown that error.
C16_ProviderErrorAborts ==
  call.name \in {"addMany", "seedMany", "clearContainer"} =>
    \A r \in 1..Len(replies) :
      ~replies[r].ok =>
        /\ r = Len(replies)
        /\ replies[r].no = sent[Len(sent)].no
        /\ pc = "done"
        /\ outcome = Thrown(replies[r].error)

\* The store failed the second of the three chunks of an addMany: two were
\* dispatched.
C16_Witness ==
  /\ call.name = "addMany"
  /\ Len(task[call.container].batches) = 3
  /\ Len(replies) = 2
  /\ ~replies[2].ok
  /\ Len(sent) = 2
  /\ outcome.kind = "thrown"

\* C17: an invocation of addOne, addMany, getMany, seedMany or
\* clearContainer dispatches no chunk twice and no item or id twice: addOne
\* sends its record once, addMany a prefix of its items, each at its place,
\* getMany one Read per id in one request, seedMany at most `count` copies,
\* clearContainer one readAll and no Delete of the same item twice.
C17_NoRetry ==
  call.name \in {"addOne", "addMany", "getMany", "seedMany", "clearContainer"}
  =>
    /\ \A i, j \in 1..Len(sent) : i < j => sent[i].no < sent[j].no
    /\ call.name = "addOne" =>
         /\ Len(sent) <= 1
         /\ \A j \in 1..Len(sent) :
              sent[j].operations = CreateOperations(<<call.data>>)
    /\ call.name = "addMany" =>
         /\ Len(SentOperations) <= Len(call.items)
         /\ \A i \in 1..Len(SentOperations) :
              SentOperations[i].resourceBody = call.items[i]
    /\ call.name = "getMany" =>
         /\ Len(sent) <= 1
         /\ \A j \in 1..Len(sent) :
              /\ Len(sent[j].operations) = Len(call.ids)
              /\ \A i \in 1..Len(call.ids) :
                   sent[j].operations[i].id = call.ids[i]
    /\ call.name = "seedMany" => Len(SentOperations) <= call.count
    /\ call.name = "clearContainer" =>
         /\ Cardinality({j \in 1..Len(sent) : sent[j].api = "readAll"}) = 1
         /\ \A i, j \in 1..Len(SentOperations) :
              i < j => SentOperations[i] # SentOperations[j]

\* An addMany of three chunks went on after its first chunk and was failed
\* by the store on its second: each chunk was dispatched once.
C17_Witness ==
  /\ call.name = "addMany"
  /\ pc = "done"
  /\ Len(call.items) = 3
  /\ bulkLimit = 1
  /\ Len(sent) = 2
  /\ Len(replies) = 2
  /\ replies[1].code = 200
  /\ replies[2].code \in {207, 429, 503}

\* C18: every bulk request is sent with continueOnError, and no operation of
\* a bulk request is left unattempted (424) for the failure of another.
C18_BulkContinueOnError ==
  /\ \A j \in 1..Len(sent) : sent[j].api = "bulk" => sent[j].continueOnError
  /\ \A r \in 1..Len(replies) :
       \A j \in 1..Len(sent) :
         (sent[j].api = "bulk" /\ sent[j].no = replies[r].no) =>
           \A i \in 1..Len(replies[r].result) :
             replies[r].result[i].statusCode # 424

(***************************************************************************)
(* Properties of clearContainer and clear.                                 *)
(***************************************************************************)
\* The partition key the claim derives for an item of a container.
DerivedKey(container, item) ==
  IF container = "data" THEN item.language ELSE item.type

\* C19: the Delete operations clearContainer has dispatched are, in order,
\* one per item read, with the item's id and derived partition key, in bulk
\* requests to the container of at most bulkLimit operations; when it
\* returns there is one for every item read, and if every Delete succeeded
\* the container is empty.
C19_ClearContainer ==
  (call.name = "clearContainer" /\ Len(replies) >= 1 /\ replies[1].ok) =>
    LET c == call.container
        read == replies[1].result
    IN  /\ Len(SentOperations) <= Len(read)
        /\ \A i \in 1..Len(SentOperations) :
             /\ SentOperations[i].operationType = "Delete"
             /\ SentOperations[i].id = read[i].id
             /\ SentOperations[i].partitionKey = DerivedKey(c, read[i])
        /\ \A j \in 2..Len(sent) :
             /\ sent[j].api = "bulk"
             /\ sent[j].container = c
             /\ Len(sent[j].operations) \in 1..bulkLimit
        /\ (pc = "done" /\ outcome.kind = "returned") =>
             /\ Len(SentOperations) = Len(read)
             /\ Len(replies) = Len(sent)
             /\ (\A r \in 2..Len(replies) :
                   \A i \in 1..Len(replies[r].result) :
                     replies[r].result[i].statusCode = 204)
                  => store[c] = {}

\* clearContainer has read three items of `data`, deleted them in two
\* chunks, and returned: the container is empty.
C19_Witness ==
  /\ call.name = "clearContainer"
  /\ call.container = "data"
  /\ pc = "done"
  /\ outcome.kind = "returned"
  /\ Len(replies[1].result) = 3
  /\ Len(sent) = 3
  /\ \A r \in 2..Len(replies) :
       \A i \in 1..Len(replies[r].result) :
         replies[r].result[i].statusCode = 204
  /\ store["data"] = {}

\* The requests sent to a container, and the answers to them, in order.
SentTo(container) == SelectSeq(sent, LAMBDA r : r.container = container)

RepliesFrom(container) ==
  SelectSeq(replies, LAMBDA r : r.container = container)

\* The clearing of `container` by clear() goes chunk by chunk: its requests
\* are the readAll and then its chunks in order, each dispatched when the
\* one before is answered and none after a rejected one.
ClearsInOrder(container) ==
  LET s == SentTo(container)
      a == RepliesFrom(container)
  IN  /\ Len(s) >= 1
      /\ Len(a) <= Len(s)
      /\ Len(s) <= Len(a) + 1
      /\ \A j \in 1..Len(s) :
           /\ s[j].no = j - 1
           /\ s[j].api = IF j = 1 THEN "readAll" ELSE "bulk"
      /\ \A j \in 1..Len(a) : a[j].no = s[j].no
      /\ \A j \in 1..Len(a) : ~a[j].ok => j = Len(s)
      /\ task[container].pending
           = IF Len(s) = Len(a) THEN {} ELSE {s[Len(s)]}

\* The Deletes sent to `container` are those of the items read from it.
ClearsOwnItems(container) ==
  LET s == SentTo(container)
      a == RepliesFrom(container)
      deletes == Flatten([j \in 1..Len(s) |-> s[j].operations])
  IN  \A i \in 1..Len(deletes) :
        /\ deletes[i].operationType = "Delete"
        /\ i <= Len(a[1].result)
        /\ deletes[i].id = a[1].result[i].id
        /\ deletes[i].partitionKey = DerivedKey(container, a[1].result[i])

\* The clearing of `container` is over: every chunk of the items read was
\* dispatched and answered.
ClearCompleted(container) ==
  LET s == SentTo(container)
      a == RepliesFrom(container)
      deletes == Flatten([j \in 1..Len(s) |-> s[j].operations])
  IN  /\ Len(a) = Len(s)
      /\ \A j \in 1..Len(a) : a[j].ok
      /\ Len(deletes) = Len(a[1].result)
      /\ task[container].pending = {}

\* Nothing of the clearing of `container` is in flight or still to come.
ClearAtRest(container) ==
  /\ task[container].pending = {}
  /\ Len(RepliesFrom(container)) = Len(SentTo(container))

\* C20 as stated: under clear() each container is cleared chunk by chunk, in
\* order, by Deletes of its own items, and once clear() is over, returned or
\* thrown, no chunk of either container is in flight or still to come.
C20_ClearCompletesLast ==
  call.name = "clear" =>
    /\ \A c \in Containers : ClearsInOrder(c) /\ ClearsOwnItems(c)
    /\ pc = "done" => \A c \in Containers : ClearAtRest(c)

\* The answers that carry a provider error.
RejectedReplies == {r \in 1..Len(replies) : ~replies[r].ok}

\* C20: under clear() each container is cleared chunk by chunk, in order, by
\* Deletes of its own items; clear() returns only when the clearing of both
\* containers is over; it throws as soon as the store rejects a request of
\* either, with the error of the first rejection, whatever the other
\* clearing still has to do.
C20_ClearSettles ==
  call.name = "clear" =>
    /\ \A c \in Containers : ClearsInOrder(c) /\ ClearsOwnItems(c)
    /\ pc = "running" =>
         /\ RejectedReplies = {}
         /\ \E c \in Containers : task[c].pending # {}
    /\ (pc = "done" /\ outcome.kind = "returned") =>
         \A c \in Containers : ClearCompleted(c)
    /\ (pc = "done" /\ outcome.kind = "thrown") =>
         /\ RejectedReplies # {}
         /\ \E r \in RejectedReplies :
              /\ \A q \in RejectedReplies : r <= q
              /\ outcome = Thrown(replies[r].error)

\* clear() has returned after the chunks of the two containers went out in
\* turn: one of `metadata`, one of `data`, then the second of `metadata`.
C20_Witness ==
  /\ call.name = "clear"
  /\ pc = "done"
  /\ outcome.kind = "returned"
  /\ Len(sent) = 5
  /\ sent[3].container = "metadata"
  /\ sent[4].container = "data"
  /\ sent[5].container = "metadata"
  /\ store = [c \in Containers |-> {}]

=============================================================================
